---- MODULE Spec2Model ----
(***************************************************************************)
(* The in-memory ledger of src/src/accounts.rs: a table of u64 balances    *)
(* keyed by account id, its three operations deposit, withdraw and send,   *)
(* and the caller's ordered log of the transaction records they return.    *)
(* send is modelled step by step (existence checks, withdraw, deposit,     *)
(* compensating deposit) so that its intermediate tables are states.       *)
(***************************************************************************)
EXTENDS Integers, Sequences, FiniteSets, TLC

VARIABLES accounts, log, pc, call, locals, result, pre, steps, exact,
          deposited

vars ==
  <<accounts, log, pc, call, locals, result, pre, steps, exact, deposited>>

\* Width in bits of the modelled balance type (u64 in the source).
W == 2

\* The largest number of records the caller's log holds in the model.
MaxLog == 3

\* u64::MAX at the modelled width.
MAX == 2^W - 1

\* The account ids the caller uses.
Account == {"alice", "bob"}

\* The amounts the caller passes: every value of the balance type.
Amount == 0..MAX

----------------------------------------------------------------------------
(* Values *)

\* Option<u64>
None == [some |-> FALSE, v |-> 0]

Some(r) == [some |-> TRUE, v |-> r]

\* tx::Tx
TxDeposit(account, amount) ==
  [type |-> "Deposit", account |-> account, amount |-> amount]

TxWithdraw(account, amount) ==
  [type |-> "Withdraw", account |-> account, amount |-> amount]

\* AccountError
NotFound(account) == [type |-> "NotFound", account |-> account]

UnderFunded(account, amount) ==
  [type |-> "UnderFunded", account |-> account, amount |-> amount]

OverFunded(account, amount) ==
  [type |-> "OverFunded", account |-> account, amount |-> amount]

\* Result<T, AccountError>
Ok(v) == [ok |-> TRUE, val |-> v]

Err(e) == [ok |-> FALSE, val |-> e]

\* No call has returned yet, or a send is still running.
Pending == [ok |-> FALSE, val |-> [type |-> "Pending"]]

\* No call has been made yet.
NoCall == [op |-> "none"]

\* HashMap::default()
EmptyTable == [a \in {} |-> 0]

----------------------------------------------------------------------------
(* u64 arithmetic *)

\* Variant: an addition that wraps at the width instead of failing.
wrapping_add(a, b) == Some((a + b) % (MAX + 1))

\* u64::checked_add
checked_add(a, b) == IF a + b > MAX THEN None ELSE Some(a + b)

\* Variant: a subtraction that also fails when it would reach 0.
sub_strict(a, b) == IF b >= a THEN None ELSE Some(a - b)

\* u64::checked_sub
checked_sub(a, b) == IF a - b < 0 THEN None ELSE Some(a - b)

----------------------------------------------------------------------------
(* Accounts::deposit and Accounts::withdraw, as functions of the table:    *)
(* the table after the call and the call's result.                         *)

\* Variant: the Deposit record carries the resulting balance.
deposit_records_balance(t, signer, amount) ==
  IF signer \in DOMAIN t
  THEN LET r == checked_add(t[signer], amount) IN
       IF r.some
       THEN [accounts |-> [t EXCEPT ![signer] = r.v],
             res |-> Ok(TxDeposit(signer, r.v))]
       ELSE [accounts |-> t, res |-> Err(OverFunded(signer, amount))]
  ELSE [accounts |-> (signer :> amount) @@ t,
        res |-> Ok(TxDeposit(signer, amount))]

\* Variant: a deposit that, like withdraw, needs the account to exist.
deposit_requires_account(t, signer, amount) ==
  IF signer \in DOMAIN t
  THEN LET r == checked_add(t[signer], amount) IN
       IF r.some
       THEN [accounts |-> [t EXCEPT ![signer] = r.v],
             res |-> Ok(TxDeposit(signer, amount))]
       ELSE [accounts |-> t, res |-> Err(OverFunded(signer, amount))]
  ELSE [accounts |-> t, res |-> Err(NotFound(signer))]

\* Variant: a deposit on a missing account rebuilds the table with that
\* entry alone.
deposit_resets_table(t, signer, amount) ==
  IF signer \in DOMAIN t
  THEN LET r == checked_add(t[signer], amount) IN
       IF r.some
       THEN [accounts |-> [t EXCEPT ![signer] = r.v],
             res |-> Ok(TxDeposit(signer, amount))]
       ELSE [accounts |-> t, res |-> Err(OverFunded(signer, amount))]
  ELSE [accounts |-> (signer :> amount),
        res |-> Ok(TxDeposit(signer, amount))]

\* Accounts::deposit
deposit(t, signer, amount) ==
  IF signer \in DOMAIN t
  THEN LET r == checked_add(t[signer], amount) IN
       IF r.some
       THEN [accounts |-> [t EXCEPT ![signer] = r.v],
             res |-> Ok(TxDeposit(signer, amount))]
       ELSE [accounts |-> t, res |-> Err(OverFunded(signer, amount))]
  ELSE [accounts |-> (signer :> amount) @@ t,
        res |-> Ok(TxDeposit(signer, amount))]

\* Variant: the wrapped difference is stored before the check.
withdraw_commit_then_check(t, signer, amount) ==
  IF signer \in DOMAIN t
  THEN LET r == checked_sub(t[signer], amount)
           stored == (t[signer] - amount) % (MAX + 1) IN
       IF r.some
       THEN [accounts |-> [t EXCEPT ![signer] = stored],
             res |-> Ok(TxWithdraw(signer, amount))]
       ELSE [accounts |-> [t EXCEPT ![signer] = stored],
             res |-> Err(UnderFunded(signer, amount))]
  ELSE [accounts |-> t, res |-> Err(NotFound(signer))]

\* Variant: a missing account is first inserted with balance 0.
withdraw_or_insert(t, signer, amount) ==
  LET u == IF signer \in DOMAIN t THEN t ELSE (signer :> 0) @@ t
      r == checked_sub(u[signer], amount) IN
  IF r.some
  THEN [accounts |-> [u EXCEPT ![signer] = r.v],
        res |-> Ok(TxWithdraw(signer, amount))]
  ELSE [accounts |-> u, res |-> Err(UnderFunded(signer, amount))]

\* Variant: an entry drained to 0 is removed from the table.
withdraw_removes_empty(t, signer, amount) ==
  IF signer \in DOMAIN t
  THEN LET r == checked_sub(t[signer], amount) IN
       IF r.some
       THEN [accounts |->
               IF r.v = 0
               THEN [x \in DOMAIN t \ {signer} |-> t[x]]
               ELSE [t EXCEPT ![signer] = r.v],
             res |-> Ok(TxWithdraw(signer, amount))]
       ELSE [accounts |-> t, res |-> Err(UnderFunded(signer, amount))]
  ELSE [accounts |-> t, res |-> Err(NotFound(signer))]

\* Accounts::withdraw
withdraw(t, signer, amount) ==
  IF signer \in DOMAIN t
  THEN LET r == checked_sub(t[signer], amount) IN
       IF r.some
       THEN [accounts |-> [t EXCEPT ![signer] = r.v],
             res |-> Ok(TxWithdraw(signer, amount))]
       ELSE [accounts |-> t, res |-> Err(UnderFunded(signer, amount))]
  ELSE [accounts |-> t, res |-> Err(NotFound(signer))]

\* The exact amount credited to minus debited from each account: a
\* successful deposit credits, a successful withdraw debits.
Credited(e, res, account, amount) ==
  IF res.ok THEN [e EXCEPT ![account] = @ + amount] ELSE e

Debited(e, res, account, amount) ==
  IF res.ok THEN [e EXCEPT ![account] = @ - amount] ELSE e

----------------------------------------------------------------------------
(* The state machine *)

\* Accounts::new(), an empty log, no call made. deposited is the set of
\* accounts that deposit calls have named so far.
Init ==
  /\ accounts = EmptyTable
  /\ log = <<>>
  /\ pc = "idle"
  /\ call = NoCall
  /\ locals = <<>>
  /\ result = Pending
  /\ pre = EmptyTable
  /\ steps = <<>>
  /\ exact = [a \in Account |-> 0]
  /\ deposited = {}

\* Variant: a deposit may start while a send is running.
CallDepositAnytime(signer, amount) ==
  /\ LET r == deposit(accounts, signer, amount) IN
       /\ accounts' = r.accounts
       /\ result' = r.res
       /\ log' = IF r.res.ok THEN Append(log, r.res.val) ELSE log
       /\ exact' = Credited(exact, r.res, signer, amount)
  /\ call' = [op |-> "deposit", signer |-> signer, amount |-> amount]
  /\ pre' = accounts
  /\ steps' = <<"deposit">>
  /\ deposited' = deposited \cup {signer}
  /\ pc' = "idle"
  /\ locals' = <<>>

\* The caller calls deposit and appends the returned record to its log.
CallDeposit(signer, amount) ==
  /\ pc = "idle"
  /\ LET r == deposit(accounts, signer, amount) IN
       /\ accounts' = r.accounts
       /\ result' = r.res
       /\ log' = IF r.res.ok THEN Append(log, r.res.val) ELSE log
       /\ exact' = Credited(exact, r.res, signer, amount)
  /\ call' = [op |-> "deposit", signer |-> signer, amount |-> amount]
  /\ pre' = accounts
  /\ steps' = <<"deposit">>
  /\ deposited' = deposited \cup {signer}
  /\ UNCHANGED <<pc, locals>>

\* The caller calls withdraw and appends the returned record to its log.
CallWithdraw(signer, amount) ==
  /\ pc = "idle"
  /\ LET r == withdraw(accounts, signer, amount) IN
       /\ accounts' = r.accounts
       /\ result' = r.res
       /\ log' = IF r.res.ok THEN Append(log, r.res.val) ELSE log
       /\ exact' = Debited(exact, r.res, signer, amount)
  /\ call' = [op |-> "withdraw", signer |-> signer, amount |-> amount]
  /\ pre' = accounts
  /\ steps' = <<"withdraw">>
  /\ UNCHANGED <<pc, locals, deposited>>

\* Variant: the recipient is looked up before the sender.
SendBeginRecipientFirst(sender, recipient, amount) ==
  /\ pc = "idle"
  /\ call' = [op |-> "send", sender |-> sender, recipient |-> recipient,
              amount |-> amount]
  /\ pre' = accounts
  /\ steps' = <<>>
  /\ IF recipient \notin DOMAIN accounts
     THEN /\ result' = Err(NotFound(recipient))
          /\ pc' = "idle"
     ELSE IF sender \notin DOMAIN accounts
     THEN /\ result' = Err(NotFound(sender))
          /\ pc' = "idle"
     ELSE /\ result' = Pending
          /\ pc' = "send_withdraw"
  /\ UNCHANGED <<accounts, log, locals, exact, deposited>>

\* Variant: the recipient's entry is not looked up.
SendBeginNoRecipientCheck(sender, recipient, amount) ==
  /\ pc = "idle"
  /\ call' = [op |-> "send", sender |-> sender, recipient |-> recipient,
              amount |-> amount]
  /\ pre' = accounts
  /\ steps' = <<>>
  /\ IF sender \notin DOMAIN accounts
     THEN /\ result' = Err(NotFound(sender))
          /\ pc' = "idle"
     ELSE /\ result' = Pending
          /\ pc' = "send_withdraw"
  /\ UNCHANGED <<accounts, log, locals, exact, deposited>>

\* send is called: the two existence checks, sender first.
SendBegin(sender, recipient, amount) ==
  /\ pc = "idle"
  /\ call' = [op |-> "send", sender |-> sender, recipient |-> recipient,
              amount |-> amount]
  /\ pre' = accounts
  /\ steps' = <<>>
  /\ IF sender \notin DOMAIN accounts
     THEN /\ result' = Err(NotFound(sender))
          /\ pc' = "idle"
     ELSE IF recipient \notin DOMAIN accounts
     THEN /\ result' = Err(NotFound(recipient))
          /\ pc' = "idle"
     ELSE /\ result' = Pending
          /\ pc' = "send_withdraw"
  /\ UNCHANGED <<accounts, log, locals, exact, deposited>>

\* Variant: the withdraw's failure is ignored and the deposit still runs.
SendWithdrawUnchecked ==
  /\ pc = "send_withdraw"
  /\ LET r == withdraw(accounts, call.sender, call.amount) IN
       /\ accounts' = r.accounts
       /\ exact' = Debited(exact, r.res, call.sender, call.amount)
  /\ locals' = <<TxWithdraw(call.sender, call.amount)>>
  /\ pc' = "send_deposit"
  /\ result' = Pending
  /\ steps' = Append(steps, "withdraw")
  /\ UNCHANGED <<log, call, pre, deposited>>

\* Variant: the recipient's overflow is checked on the table of before the
\* withdraw.
SendWithdrawPrechecked ==
  /\ pc = "send_withdraw"
  /\ IF accounts[call.recipient] + call.amount > MAX
     THEN /\ accounts' = accounts
          /\ exact' = exact
          /\ locals' = <<>>
          /\ pc' = "idle"
          /\ result' = Err(OverFunded(call.recipient, call.amount))
     ELSE LET r == withdraw(accounts, call.sender, call.amount) IN
          /\ accounts' = r.accounts
          /\ exact' = Debited(exact, r.res, call.sender, call.amount)
          /\ IF r.res.ok
             THEN /\ locals' = <<r.res.val>>
                  /\ pc' = "send_deposit"
                  /\ result' = Pending
             ELSE /\ locals' = <<>>
                  /\ pc' = "idle"
                  /\ result' = Err(UnderFunded(call.sender, call.amount))
  /\ steps' = Append(steps, "withdraw")
  /\ UNCHANGED <<log, call, pre, deposited>>

\* send: self.withdraw(sender, amount), or return UnderFunded.
SendWithdraw ==
  /\ pc = "send_withdraw"
  /\ LET r == withdraw(accounts, call.sender, call.amount) IN
       /\ accounts' = r.accounts
       /\ exact' = Debited(exact, r.res, call.sender, call.amount)
       /\ IF r.res.ok
          THEN /\ locals' = <<r.res.val>>
               /\ pc' = "send_deposit"
               /\ result' = Pending
          ELSE /\ locals' = <<>>
               /\ pc' = "idle"
               /\ result' = Err(UnderFunded(call.sender, call.amount))
  /\ steps' = Append(steps, "withdraw")
  /\ UNCHANGED <<log, call, pre, deposited>>

\* Variant: the two records are returned in (Deposit, Withdraw) order.
SendDepositSwapped ==
  /\ pc = "send_deposit"
  /\ LET r == deposit(accounts, call.recipient, call.amount) IN
       /\ accounts' = r.accounts
       /\ exact' = Credited(exact, r.res, call.recipient, call.amount)
       /\ IF r.res.ok
          THEN /\ result' = Ok(<<r.res.val, locals[1]>>)
               /\ log' = log \o <<r.res.val, locals[1]>>
               /\ pc' = "idle"
               /\ locals' = <<>>
          ELSE /\ result' = Pending
               /\ log' = log
               /\ pc' = "send_refund"
               /\ locals' = locals
  /\ steps' = Append(steps, "deposit")
  /\ UNCHANGED <<call, pre, deposited>>

\* send: self.deposit(recipient, amount); on success return both records,
\* which the caller appends to its log in that order.
SendDeposit ==
  /\ pc = "send_deposit"
  /\ LET r == deposit(accounts, call.recipient, call.amount) IN
       /\ accounts' = r.accounts
       /\ exact' = Credited(exact, r.res, call.recipient, call.amount)
       /\ IF r.res.ok
          THEN /\ result' = Ok(<<locals[1], r.res.val>>)
               /\ log' = log \o <<locals[1], r.res.val>>
               /\ pc' = "idle"
               /\ locals' = <<>>
          ELSE /\ result' = Pending
               /\ log' = log
               /\ pc' = "send_refund"
               /\ locals' = locals
  /\ steps' = Append(steps, "deposit")
  /\ UNCHANGED <<call, pre, deposited>>

\* Variant: the sender is not credited back.
SendNoRefund ==
  /\ pc = "send_refund"
  /\ result' = Err(OverFunded(call.recipient, call.amount))
  /\ pc' = "idle"
  /\ locals' = <<>>
  /\ steps' = steps
  /\ UNCHANGED <<accounts, exact, log, call, pre, deposited>>

\* Variant: the compensating deposit credits the recipient again.
SendRefundRecipient ==
  /\ pc = "send_refund"
  /\ LET r == deposit(accounts, call.recipient, call.amount) IN
       /\ accounts' = r.accounts
       /\ exact' = Credited(exact, r.res, call.recipient, call.amount)
       /\ result' = IF r.res.ok
                    THEN Err(OverFunded(call.recipient, call.amount))
                    ELSE r.res
  /\ pc' = "idle"
  /\ locals' = <<>>
  /\ steps' = Append(steps, "deposit")
  /\ UNCHANGED <<log, call, pre, deposited>>

\* send: the recipient's deposit failed; self.deposit(sender, amount)? and
\* return OverFunded for the recipient.
SendRefund ==
  /\ pc = "send_refund"
  /\ LET r == deposit(accounts, call.sender, call.amount) IN
       /\ accounts' = r.accounts
       /\ exact' = Credited(exact, r.res, call.sender, call.amount)
       /\ result' = IF r.res.ok
                    THEN Err(OverFunded(call.recipient, call.amount))
                    ELSE r.res
  /\ pc' = "idle"
  /\ locals' = <<>>
  /\ steps' = Append(steps, "deposit")
  /\ UNCHANGED <<log, call, pre, deposited>>

\* The caller makes calls until its log holds MaxLog records.
Next ==
  \/ /\ Len(log) < MaxLog
     /\ \E signer \in Account, amount \in Amount :
          CallDeposit(signer, amount)
  \/ /\ Len(log) < MaxLog
     /\ \E signer \in Account, amount \in Amount :
          CallWithdraw(signer, amount)
  \/ /\ Len(log) < MaxLog
     /\ \E sender \in Account, recipient \in Account, amount \in Amount :
          SendBegin(sender, recipient, amount)
  \/ SendWithdraw
  \/ SendDeposit
  \/ SendRefund

Spec == Init /\ [][Next]_vars

----------------------------------------------------------------------------
(* The same ledger driven by a caller with three account ids, so that a    *)
(* send has an account that is neither its sender nor its recipient. The   *)
(* caller passes the boundary amounts only.                                *)

FrameAccount == {"alice", "bob", "charlie"}

FrameAmount == {0, 1, MAX}

\* The largest number of records this caller's log holds in the model.
MaxFrameLog == 4

\* Accounts::new(), an empty log, no call made.
InitFrame ==
  /\ accounts = EmptyTable
  /\ log = <<>>
  /\ pc = "idle"
  /\ call = NoCall
  /\ locals = <<>>
  /\ result = Pending
  /\ pre = EmptyTable
  /\ steps = <<>>
  /\ exact = [a \in FrameAccount |-> 0]
  /\ deposited = {}

\* The caller makes calls until its log holds MaxFrameLog records.
NextFrame ==
  \/ /\ Len(log) < MaxFrameLog
     /\ \E signer \in FrameAccount, amount \in FrameAmount :
          CallDeposit(signer, amount)
  \/ /\ Len(log) < MaxFrameLog
     /\ \E signer \in FrameAccount, amount \in FrameAmount :
          CallWithdraw(signer, amount)
  \/ /\ Len(log) < MaxFrameLog
     /\ \E sender \in FrameAccount, recipient \in FrameAccount,
           amount \in FrameAmount :
          SendBegin(sender, recipient, amount)
  \/ SendWithdraw
  \/ SendDeposit
  \/ SendRefund

SpecFrame == InitFrame /\ [][NextFrame]_vars

\* A step of a running send.
SendStep == SendWithdraw \/ SendDeposit \/ SendRefund

\* A call of one of the three operations.
CallStep ==
  \E a \in Account, b \in Account, amount \in Amount :
    \/ CallDeposit(a, amount)
    \/ CallWithdraw(a, amount)
    \/ SendBegin(a, b, amount)

\* The ledger is synchronous: a send that has started takes its next step.
FairSpec == Spec /\ WF_vars(SendStep)

----------------------------------------------------------------------------
(* Properties *)

\* A call has returned: its result and the table it left are in the state.
Returned(op) == pc = "idle" /\ call.op = op

\* One record applied to a table in unbounded integers: Deposit adds the
\* amount, creating the account if absent; Withdraw subtracts it.
ApplyTx(t, tx) ==
  LET old == IF tx.account \in DOMAIN t THEN t[tx.account] ELSE 0
      new == IF tx.type = "Deposit" THEN old + tx.amount ELSE old - tx.amount
  IN  IF tx.account \in DOMAIN t
      THEN [t EXCEPT ![tx.account] = new]
      ELSE (tx.account :> new) @@ t

RECURSIVE Replay(_)
\* The records of a log applied in order to a fresh empty table.
Replay(l) ==
  IF l = <<>> THEN EmptyTable
  ELSE ApplyTx(Replay(SubSeq(l, 1, Len(l) - 1)), l[Len(l)])

\* C1: whenever no call is running, applying the log of returned records in
\* order to an empty table gives the ledger's table: the same accounts with
\* the same balances.
C1_ReplayInvariant == pc = "idle" => Replay(log) = accounts

\* C1 witness: a send between two distinct accounts has succeeded and its
\* two records are the last of a log of at least three records, in
\* (Withdraw, Deposit) order.
C1_Witness ==
  /\ Returned("send")
  /\ result.ok
  /\ call.sender # call.recipient
  /\ call.amount > 0
  /\ Len(log) >= 3
  /\ log[Len(log) - 1] = TxWithdraw(call.sender, call.amount)
  /\ log[Len(log)] = TxDeposit(call.recipient, call.amount)

\* C2: after every call of deposit, withdraw or send that returned an error,
\* the table is the table of before the call.
C2_NoOpOnFailure ==
  (pc = "idle" /\ call.op \in {"deposit", "withdraw", "send"} /\ ~result.ok)
    => accounts = pre

\* C2 witness: a withdraw of more than the balance of an existing account
\* has returned UnderFunded.
C2_Witness ==
  /\ Returned("withdraw")
  /\ call.signer \in DOMAIN pre
  /\ call.amount > pre[call.signer]
  /\ result = Err(UnderFunded(call.signer, call.amount))

\* The case of C3: a send has returned, sender and recipient both had
\* entries, the amount was within the sender's balance and the recipient's
\* balance plus the amount exceeded MAX.
C3_Case ==
  /\ Returned("send")
  /\ call.sender \in DOMAIN pre
  /\ call.recipient \in DOMAIN pre
  /\ call.amount <= pre[call.sender]
  /\ pre[call.recipient] + call.amount > MAX

\* What C3 promises of that case: OverFunded for the recipient, and both
\* balances as before the call.
C3_Outcome ==
  /\ result = Err(OverFunded(call.recipient, call.amount))
  /\ accounts[call.sender] = pre[call.sender]
  /\ accounts[call.recipient] = pre[call.recipient]

\* C3 as stated: in every such case, sender and recipient the same account
\* included, send returns OverFunded(recipient, amount) and leaves both
\* balances as they were.
C3_Original == C3_Case => C3_Outcome

\* C3 amended: when sender and recipient are distinct accounts with entries,
\* the amount is within the sender's balance and the recipient's balance
\* plus the amount exceeds MAX, send returns OverFunded(recipient, amount)
\* and both balances are as before the call.
C3_SendAtomicOnOverflow ==
  (C3_Case /\ call.sender # call.recipient) => C3_Outcome

\* C3 witness: such a send between distinct accounts has returned, after
\* its withdraw, its failed deposit and its compensating deposit.
C3_Witness ==
  /\ C3_Case
  /\ call.sender # call.recipient
  /\ call.amount > 0
  /\ steps = <<"withdraw", "deposit", "deposit">>

\* C4: in every state, the states inside send included, every stored balance
\* lies in 0..MAX and is the exact integer credited to the account minus
\* the exact integer debited from it.
C4_BalancesNeverWrap ==
  \A a \in DOMAIN accounts :
    /\ accounts[a] \in 0..MAX
    /\ accounts[a] = exact[a]

\* C4 witness: inside a send, after the withdraw and the recipient's failed
\* deposit, the recipient holds a balance that the amount would overflow.
C4_Witness ==
  /\ pc = "send_refund"
  /\ call.sender # call.recipient
  /\ accounts[call.recipient] + call.amount > MAX
  /\ accounts[call.sender] = pre[call.sender] - call.amount

\* C5: a deposit of a on an account holding b succeeds iff b + a <= MAX; on
\* success the balance is b + a and the result is Deposit{account, a} with
\* the requested amount; otherwise the result is OverFunded(account, a)
\* and the balance is still b.
C5_DepositExisting ==
  (Returned("deposit") /\ call.signer \in DOMAIN pre) =>
    LET b == pre[call.signer]
        a == call.amount
    IN  /\ result.ok <=> b + a <= MAX
        /\ result.ok =>
             /\ accounts[call.signer] = b + a
             /\ result = Ok(TxDeposit(call.signer, a))
        /\ ~result.ok =>
             /\ result = Err(OverFunded(call.signer, a))
             /\ accounts[call.signer] = b

\* C5 witness: a deposit of a positive amount on an account with a positive
\* balance has succeeded, so the new balance differs from the amount.
C5_Witness ==
  /\ Returned("deposit")
  /\ call.signer \in DOMAIN pre
  /\ pre[call.signer] > 0
  /\ call.amount > 0
  /\ result.ok
  /\ accounts[call.signer] # call.amount

\* C6: a deposit of any amount on an account without an entry returns
\* Deposit{account, amount} and leaves an entry holding exactly the amount.
C6_DepositMissing ==
  (Returned("deposit") /\ call.signer \notin DOMAIN pre) =>
    /\ result = Ok(TxDeposit(call.signer, call.amount))
    /\ call.signer \in DOMAIN accounts
    /\ accounts[call.signer] = call.amount

\* C6 witness: MAX has been deposited on an account that had no entry.
C6_Witness ==
  /\ Returned("deposit")
  /\ call.signer \notin DOMAIN pre
  /\ call.amount = MAX
  /\ result.ok
  /\ accounts[call.signer] = MAX

\* C7: a withdraw of a from an account holding b succeeds iff a <= b; on
\* success the balance is b - a, the entry stays, and the result is
\* Withdraw{account, a}; otherwise the result is UnderFunded(account, a)
\* and the balance is still b.
C7_WithdrawExisting ==
  (Returned("withdraw") /\ call.signer \in DOMAIN pre) =>
    LET b == pre[call.signer]
        a == call.amount
    IN  /\ call.signer \in DOMAIN accounts
        /\ result.ok <=> a <= b
        /\ result.ok =>
             /\ accounts[call.signer] = b - a
             /\ result = Ok(TxWithdraw(call.signer, a))
        /\ ~result.ok =>
             /\ result = Err(UnderFunded(call.signer, a))
             /\ accounts[call.signer] = b

\* C7 witness: an account holding MAX has been drained by a withdraw of MAX
\* and still has its entry, with balance 0.
C7_Witness ==
  /\ Returned("withdraw")
  /\ call.signer \in DOMAIN pre
  /\ pre[call.signer] = MAX
  /\ call.amount = MAX
  /\ result.ok
  /\ call.signer \in DOMAIN accounts
  /\ accounts[call.signer] = 0

\* C8: a withdraw of any amount from an account without an entry returns
\* NotFound(account), creates no entry and changes no balance.
C8_WithdrawMissing ==
  (Returned("withdraw") /\ call.signer \notin DOMAIN pre) =>
    /\ result = Err(NotFound(call.signer))
    /\ call.signer \notin DOMAIN accounts
    /\ accounts = pre

\* C8 witness: a withdraw of 0 from a missing account has returned, while
\* another account has an entry.
C8_Witness ==
  /\ Returned("withdraw")
  /\ call.signer \notin DOMAIN pre
  /\ call.amount = 0
  /\ DOMAIN pre # {}
  /\ ~result.ok

\* C9: a send between distinct accounts with entries, of an amount within
\* the sender's balance that the recipient's balance can take, returns
\* (Withdraw{sender, amount}, Deposit{recipient, amount}) in that order and
\* moves the amount from the sender's balance to the recipient's.
C9_SendSuccess ==
  ( /\ Returned("send")
    /\ call.sender # call.recipient
    /\ call.sender \in DOMAIN pre
    /\ call.recipient \in DOMAIN pre
    /\ call.amount <= pre[call.sender]
    /\ pre[call.recipient] + call.amount <= MAX ) =>
    /\ result = Ok(<<TxWithdraw(call.sender, call.amount),
                     TxDeposit(call.recipient, call.amount)>>)
    /\ accounts[call.sender] = pre[call.sender] - call.amount
    /\ accounts[call.recipient] = pre[call.recipient] + call.amount

\* C9 witness: a send of a positive amount between distinct accounts has
\* succeeded and emptied the sender.
C9_Witness ==
  /\ Returned("send")
  /\ call.sender # call.recipient
  /\ call.sender \in DOMAIN pre
  /\ call.recipient \in DOMAIN pre
  /\ call.amount > 0
  /\ call.amount = pre[call.sender]
  /\ result.ok
  /\ accounts[call.sender] = 0

\* C10: a send whose sender has no entry returns NotFound(sender), also
\* when the recipient is missing too; a send whose sender has an entry and
\* whose recipient has none returns NotFound(recipient), whatever the
\* amount. In both cases the call returns from its checks: no withdraw or
\* deposit step is executed and the table is untouched.
C10_SendChecksFirst ==
  (call.op = "send" /\
     (call.sender \notin DOMAIN pre \/ call.recipient \notin DOMAIN pre)) =>
    /\ pc = "idle"
    /\ steps = <<>>
    /\ accounts = pre
    /\ result = IF call.sender \notin DOMAIN pre
                THEN Err(NotFound(call.sender))
                ELSE Err(NotFound(call.recipient))

\* C10 witness: a send of more than the sender's balance to a missing
\* recipient has returned NotFound(recipient).
C10_Witness ==
  /\ Returned("send")
  /\ call.sender \in DOMAIN pre
  /\ call.recipient \notin DOMAIN pre
  /\ call.amount > pre[call.sender]
  /\ result = Err(NotFound(call.recipient))

\* C11: a send of more than the sender's balance, sender and recipient both
\* having entries, returns UnderFunded(sender, amount), also when the
\* recipient's balance plus the amount would overflow; only the withdraw
\* step runs, never a deposit step, and the table is unchanged.
C11_SendUnderFunded ==
  ( /\ call.op = "send"
    /\ call.sender \in DOMAIN pre
    /\ call.recipient \in DOMAIN pre
    /\ call.amount > pre[call.sender] ) =>
    /\ pc \in {"send_withdraw", "idle"}
    /\ \A i \in 1..Len(steps) : steps[i] # "deposit"
    /\ accounts = pre
    /\ pc = "idle" =>
         /\ result = Err(UnderFunded(call.sender, call.amount))
         /\ steps = <<"withdraw">>

\* C11 witness: a send of more than the sender's balance to a distinct
\* recipient that the amount would overflow has returned UnderFunded.
C11_Witness ==
  /\ Returned("send")
  /\ call.sender \in DOMAIN pre
  /\ call.recipient \in DOMAIN pre
  /\ call.sender # call.recipient
  /\ call.amount > pre[call.sender]
  /\ pre[call.recipient] + call.amount > MAX
  /\ result = Err(UnderFunded(call.sender, call.amount))

\* C12: during and after every send, successful or failing, the accounts
\* that have an entry are those that had one before the call.
C12_SendCreatesNoAccount ==
  call.op = "send" => DOMAIN accounts = DOMAIN pre

\* C12 witness: a send from an existing sender to a recipient without an
\* entry has returned, and the recipient still has no entry.
C12_Witness ==
  /\ Returned("send")
  /\ call.sender \in DOMAIN pre
  /\ call.recipient \notin DOMAIN pre
  /\ call.amount <= pre[call.sender]
  /\ call.recipient \notin DOMAIN accounts

\* The entry of an account in a table: whether it is present, and its
\* balance.
Entry(t, x) == IF x \in DOMAIN t THEN <<TRUE, t[x]>> ELSE <<FALSE, 0>>

\* The accounts a call names.
Touched ==
  IF call.op = "send" THEN {call.sender, call.recipient}
  ELSE IF call.op \in {"deposit", "withdraw"} THEN {call.signer}
  ELSE {}

\* C13: during and after every deposit, withdraw and send, successful or
\* failing, every account the call does not name has the entry (presence
\* and balance) it had before the call.
C13_Frame ==
  call.op # "none" =>
    \A x \in FrameAccount \ Touched : Entry(accounts, x) = Entry(pre, x)

\* C13 witness: a send of a positive amount between two distinct accounts
\* has succeeded while a third account held a positive balance.
C13_Witness ==
  /\ Returned("send")
  /\ result.ok
  /\ call.sender # call.recipient
  /\ call.amount > 0
  /\ \E x \in DOMAIN pre \ Touched : pre[x] > 0 /\ accounts[x] = pre[x]

\* C14: a new ledger has no entries; in every state the accounts that have
\* an entry are exactly those that an earlier deposit call named; and no
\* step of any operation removes an entry.
C14_Presence ==
  /\ [](DOMAIN accounts = deposited)
  /\ [][DOMAIN accounts \subseteq DOMAIN accounts']_vars

\* C14 witness: a withdraw has drained an account that held a positive
\* balance, and the account still has its entry, with balance 0.
C14_Witness ==
  /\ Returned("withdraw")
  /\ result.ok
  /\ call.signer \in deposited
  /\ pre[call.signer] > 0
  /\ call.signer \in DOMAIN accounts
  /\ accounts[call.signer] = 0

\* C16: whenever a send reaches its compensation step, the sender's balance
\* plus the amount fits in MAX and is the sender's balance of before the
\* call, so the compensating deposit succeeds; and a send that has returned
\* an error after its deposit step has left the table of before the call
\* and returned OverFunded for the recipient: no send returns an error
\* with the sender debited.
C16_CompensationNeverFails ==
  /\ pc = "send_refund" =>
       /\ accounts[call.sender] + call.amount <= MAX
       /\ accounts[call.sender] + call.amount = pre[call.sender]
  /\ (Returned("send") /\ ~result.ok /\ Len(steps) >= 2) =>
       /\ steps = <<"withdraw", "deposit", "deposit">>
       /\ result = Err(OverFunded(call.recipient, call.amount))
       /\ accounts = pre
  /\ (Returned("send") /\ ~result.ok /\ call.sender \in DOMAIN pre) =>
       accounts[call.sender] = pre[call.sender]

\* C16 witness: a send whose sender held MAX has returned after its
\* compensating deposit, which brought the sender back to MAX.
C16_Witness ==
  /\ Returned("send")
  /\ ~result.ok
  /\ steps = <<"withdraw", "deposit", "deposit">>
  /\ pre[call.sender] = MAX
  /\ call.amount > 0
  /\ accounts[call.sender] = MAX

\* C17: a send from an account holding b to itself returns
\* (Withdraw{A, a}, Deposit{A, a}) when a <= b and UnderFunded(A, a) when
\* a > b, with the balance b in both cases; it never returns OverFunded
\* and never reaches the compensation step.
C17_SelfTransfer ==
  ( /\ call.op = "send"
    /\ call.sender = call.recipient
    /\ call.sender \in DOMAIN pre ) =>
    LET A == call.sender
        a == call.amount
        b == pre[call.sender]
    IN  /\ pc # "send_refund"
        /\ pc = "idle" =>
             /\ accounts[A] = b
             /\ result = IF a <= b
                         THEN Ok(<<TxWithdraw(A, a), TxDeposit(A, a)>>)
                         ELSE Err(UnderFunded(A, a))

\* C17 witness: an account holding MAX has sent a positive amount to
\* itself and the send has succeeded.
C17_Witness ==
  /\ Returned("send")
  /\ call.sender = call.recipient
  /\ call.sender \in DOMAIN pre
  /\ pre[call.sender] = MAX
  /\ call.amount > 0
  /\ result.ok
  /\ accounts[call.sender] = MAX

RECURSIVE SumOver(_, _)
\* The sum, in unbounded integers, of the balances of the accounts of S.
SumOver(t, S) ==
  IF S = {} THEN 0
  ELSE LET x == CHOOSE y \in S : TRUE
       IN  t[x] + SumOver(t, S \ {x})

\* The sum of all the balances of a table.
Total(t) == SumOver(t, DOMAIN t)

\* C18: after every send, successful or failing, the sum of all balances is
\* the sum of before the call; a deposit changes it by +amount and a
\* withdraw by -amount when they succeed, and by nothing when they fail.
C18_SendConservesTotal ==
  /\ Returned("send") => Total(accounts) = Total(pre)
  /\ Returned("deposit") =>
       Total(accounts) = Total(pre) + (IF result.ok THEN call.amount ELSE 0)
  /\ Returned("withdraw") =>
       Total(accounts) = Total(pre) - (IF result.ok THEN call.amount ELSE 0)

\* C18 witness: a send of a positive amount between distinct accounts has
\* succeeded, both balances have changed and the total has not.
C18_Witness ==
  /\ Returned("send")
  /\ result.ok
  /\ call.sender # call.recipient
  /\ accounts[call.sender] < pre[call.sender]
  /\ accounts[call.recipient] > pre[call.recipient]
  /\ Total(accounts) = Total(pre)
  /\ Total(pre) > 0

\* One logged record replayed through the ledger's own operation.
ReplayCall(t, tx) ==
  IF tx.type = "Deposit"
  THEN deposit(t, tx.account, tx.amount)
  ELSE withdraw(t, tx.account, tx.amount)

RECURSIVE ReplayOps(_)
\* A log replayed through deposit and withdraw on a fresh ledger: the table
\* reached, and whether every call returned Ok with the logged record.
ReplayOps(l) ==
  IF l = <<>> THEN [accounts |-> EmptyTable, ok |-> TRUE]
  ELSE LET p == ReplayOps(SubSeq(l, 1, Len(l) - 1))
           r == ReplayCall(p.accounts, l[Len(l)])
       IN  [accounts |-> r.accounts, ok |-> p.ok /\ r.res = Ok(l[Len(l)])]

\* C19: in every state, the log replayed on a fresh ledger through deposit
\* (for a Deposit record) and withdraw (for a Withdraw record) succeeds at
\* every record, each call returning the logged record.
C19_LogReplaysWithoutError == ReplayOps(log).ok

\* C19 witness: the log ends with the two records of a successful send from
\* an account holding MAX to itself, which replay only in (Withdraw,
\* Deposit) order, and its replay reaches the ledger's table.
C19_Witness ==
  /\ Returned("send")
  /\ result.ok
  /\ call.sender = call.recipient
  /\ call.amount > 0
  /\ pre[call.sender] = MAX
  /\ Len(log) >= 3
  /\ log[Len(log) - 1].type = "Withdraw"
  /\ ReplayOps(log).ok
  /\ ReplayOps(log).accounts = accounts

\* C20: while a send is running no call of deposit, withdraw or send can
\* start and a step of the send can always be taken; every step taken then
\* belongs to that send (same call, same pre-call table), and a send takes
\* at most three withdraw or deposit steps; and every send that has
\* started returns.
C20_Atomic ==
  /\ [](pc # "idle" => (~ENABLED CallStep /\ ENABLED SendStep))
  /\ [][pc # "idle" =>
          /\ call' = call
          /\ pre' = pre
          /\ Len(steps') = Len(steps) + 1
          /\ Len(steps') <= 3]_vars
  /\ [](pc # "idle" => <>(pc = "idle"))

\* C20 witness: inside a send between distinct accounts the sender has been
\* debited and the recipient not credited, and no call can start.
C20_Witness ==
  /\ pc = "send_deposit"
  /\ call.sender # call.recipient
  /\ accounts[call.sender] < pre[call.sender]
  /\ accounts[call.recipient] = pre[call.recipient]
  /\ ~ENABLED CallStep

====
